---- MODULE Spec2Model ----
(***************************************************************************)
(* A model of dogmatiq/minibus: session.run and its phases (startFuncs,   *)
(* exchangeMessages, deliverMessage, stopFuncs), function.Call,           *)
(* function.Pump, function.Deliver and the facade operations (Subscribe,  *)
(* Ready, Send, Receive) as they are used by application behaviours.      *)
(*                                                                         *)
(* Every Go channel of the program is unbuffered, so a channel operation  *)
(* is one action in which the sender and the receiver both move.  A Go    *)
(* select chooses among its ready cases at random: each case is its own   *)
(* action, enabled when the case is ready.                                *)
(***************************************************************************)
EXTENDS Integers, Sequences, FiniteSets, TLC

\* The names of the functions Run may be called with.
Funcs == {"A", "B", "C"}

\* Message types: the concrete types T and U, and an interface that T
\* implements and U does not.
ConcreteTypes == {"T", "U"}
InterfaceTypes == {"I", "any"}
Types == ConcreteTypes \cup InterfaceTypes

\* The number of messages a sending behaviour sends.
MaxSends == 2

\* The number of messages a receiving behaviour waits for.
MaxRecvs == 3

\* n times the operation op.
Times(n, op) == [i \in 1..n |-> op]

(***************************************************************************)
(* The behaviours handed to Run (function.impl) are application code.     *)
(* Each is a straight-line program over the facade's operations: the      *)
(* behaviours of the repository's tests and examples, and the ones the    *)
(* documentation of the facade speaks of.  A blocking operation that is   *)
(* interrupted (the context is done, the inbox is closed) makes the       *)
(* behaviour return, as every behaviour of the tests does.                *)
(***************************************************************************)
Quiet == <<>>                                                   \* returns at once
ReadyOnly == <<"Ready">>                                        \* Ready, then returns
Waiter == <<"Wait">>                                            \* <-ctx.Done()
Eager == <<"Send", "Ready">>                                    \* sends before Ready
Single == <<"Ready", "Send">>                                   \* sends one message
Sender == <<"Ready">> \o Times(MaxSends, "Send")                \* sends MaxSends messages
SubscriberT == <<"SubT", "Ready">> \o Times(MaxRecvs, "Recv")   \* subscribes to T
SubscriberI == <<"SubI", "Ready", "Ready">> \o Times(MaxRecvs, "Recv")  \* to I
Deaf == <<"SubT", "Ready", "Wait">>                             \* subscribes, never receives
Both == <<"SubT", "SubI", "Ready", "Send", "Recv">>             \* sends and receives
Other == <<"Ready", "SendU">>                                   \* sends one message of type U
Leaver == <<"SubT", "Ready">>                                   \* subscribes, then returns
RawSender == <<"Ready", "OutboxSend">>                          \* Outbox(ctx) <- m
Ranger == <<"SubT", "Ready", "InboxRecv", "InboxRecv">>         \* range over Inbox(ctx)
LateSubscriber == <<"SubI", "Ready", "SubT">>                   \* Subscribe after Ready
NilSender == <<"Ready", "SendNil">>                             \* Send(ctx, nil)
AnySubscriber == <<"SubAny", "Ready", "Recv">>                  \* Subscribe[any]
\* Ingest over a source channel that holds MaxSends values and is closed
\* (ingest_test.go, lines 16-21): Ready, then receive and Send by turns; the
\* last receive finds the source closed.
Ingester ==
    [i \in 1..(2 * MaxSends + 2) |->
        IF i = 1 THEN "Ready" ELSE IF i % 2 = 0 THEN "Take" ELSE "IngestSend"]
Stranger == <<"Foreign">>                \* a facade operation on a context not made by Run
\* Two behaviours that publish to each other: each subscribes to the type the
\* other sends, sends k messages, then receives k messages.
MutualT(k) == <<"SubU", "Ready">> \o Times(k, "Send") \o Times(k, "Recv")
MutualU(k) == <<"SubT", "Ready">> \o Times(k, "SendU") \o Times(k, "Recv")

Impls == <<Quiet, ReadyOnly, Waiter, Eager, Single, Sender, SubscriberT, SubscriberI,
          Deaf, Both>>

\* The behaviours that only send once they are ready; two of them exchange
\* nothing: neither subscribes to anything.
Talkers == {Single, Sender}

\* The calls of Run in which every behaviour may return an error of its own:
\* no function, one function, two functions (but two Talkers) and some calls
\* with three. s.funcs is a map, so the order of the functions is immaterial.
Calls ==
    {<<>>}
    \cup {<<Impls[i]>> : i \in 1..Len(Impls)}
    \cup {<<Impls[p[1]], Impls[p[2]]>> :
             p \in {q \in (1..Len(Impls)) \X (1..Len(Impls)) :
                       q[1] <= q[2] /\ ~({Impls[q[1]], Impls[q[2]]} \subseteq Talkers)}}
    \cup {<<ReadyOnly, SubscriberT, Eager>>,
          <<Quiet, Waiter, ReadyOnly>>,
          <<Other, SubscriberT>>,
          <<Other, SubscriberI>>,
          <<RawSender>>,
          <<Ranger>>,
          <<RawSender, Ranger>>,
          <<Single, Ranger>>,
          <<LateSubscriber>>,
          <<Stranger>>,
          <<LateSubscriber, Single>>,
          <<Stranger, SubscriberT>>,
          <<NilSender>>,
          <<NilSender, AnySubscriber>>,
          <<Ingester>>,
          <<Ingester, SubscriberT>>}

\* Calls of exchanging behaviours, none of which returns an error, made with
\* a context that is never cancelled.
QuietCalls ==
    {<<MutualT(k), MutualU(k)>> : k \in 1..MaxSends} \cup
    {<<Sender, Single, SubscriberT>>,
     <<Sender, SubscriberT, SubscriberI>>,
     <<Sender, Leaver, SubscriberT>>,
     <<ReadyOnly, Single, SubscriberT>>,
     <<Single, Deaf, SubscriberT>>}

\* The names of the functions of a call, in order.
Names == <<"A", "B", "C">>

\* The type an operation "Sub.." subscribes to.
SubType(op) ==
    IF op = "SubT" THEN "T"
    ELSE IF op = "SubU" THEN "U"
    ELSE IF op = "SubAny" THEN "any" ELSE "I"

\* The operations that call Subscribe.
IsSubscribe(op) == op \in {"SubT", "SubU", "SubI", "SubAny"}

\* reflect.Type.Kind() == reflect.Interface
IsInterface(t) == t \in InterfaceTypes

\* reflect.Type.Implements
Implements(t, i) == (t = "T" /\ i = "I") \/ (t \in ConcreteTypes /\ i = "any")

\* The operations that send on the outbox, and the type of the message sent.
IsSend(op) == op \in {"Send", "SendU", "SendNil", "OutboxSend", "IngestSend"}
SendType(op) == IF op = "SendU" THEN "U" ELSE IF op = "SendNil" THEN "nil" ELSE "T"

\* The zero value of envelope, left behind in the pump's queue.  MessageID,
\* which the program only writes to its trace log, is left out.
ZeroEnv == [Publisher |-> "nil", MessageType |-> "nil", Message |-> 0]

VARIABLES
    cohort,             \* the functions passed to Run
    impl,               \* function.impl: the program of each behaviour
    ip,                 \* the number of operations each behaviour has done
    mayFail,            \* whether the behaviour may return an error of its own
    parentDone,         \* the caller's context is cancelled
    ctxDone,            \* the session's context (context.WithCancel) is done
    pc,                 \* where session.run is
    pending,            \* startFuncs' loop counter
    funcs,              \* session.funcs
    subscribersByType,  \* session.subscribersByType
    env,                \* deliverMessage's envelope
    delivering,         \* recipients whose Deliver goroutine is running
    result,             \* what Run returned
    fpc,                \* where each function.Call is
    Subscriptions,      \* function.Subscriptions
    Ready,              \* function.Ready
    Err,                \* function.Err
    inboxClosed,        \* function.Inbox is closed
    outboxClosed,       \* function.Outbox is closed
    returnedClosed,     \* function.Returned is closed
    nSent,              \* number of messages the behaviour has sent
    pumpState,          \* where each function.Pump is
    queue,              \* Pump's queue
    index,              \* Pump's index
    outboxNil,          \* Pump's outbox variable is nil
    inboxLog,           \* history: the envelopes whose message went into each inbox
    readyAccepted,      \* history: the functions whose ready signal was received
    ctxErrSeen,         \* history: ctx.Err() as seen by a behaviour after <-ctx.Done()
    cancelAt            \* history: what the caller's cancellation found

orchVars == <<pc, pending, funcs, subscribersByType, env, delivering, result>>
ctxVars == <<parentDone, ctxDone>>
funcVars == <<fpc, Subscriptions, Ready, Err, inboxClosed, outboxClosed, returnedClosed, nSent>>
pumpVars == <<pumpState, queue, index, outboxNil>>
histVars == <<inboxLog, readyAccepted, ctxErrSeen, cancelAt>>
vars == <<cohort, impl, mayFail, ip, orchVars, ctxVars, funcVars, pumpVars, histVars>>

\* ctx.Err() of the session's context.
CtxErr == IF ctxDone THEN "Canceled" ELSE "nil"

\* The program of f and the operation it is at.
Program(f) == impl[f]
AtEnd(f) == ip[f] = Len(Program(f))
Op(f) == IF AtEnd(f) THEN "Return" ELSE Program(f)[ip[f] + 1]

\* The behaviour of f is in (or about to enter) the operation op.
Blocked(f, op) == fpc[f] = "running" /\ Op(f) = op

\* The behaviour of f is in (or about to enter) a send on its outbox.
Sending(f) == fpc[f] = "running" /\ IsSend(Op(f))

\* The behaviour of f is in (or about to enter) a receive from its inbox.
Receiving(f) == fpc[f] = "running" /\ Op(f) \in {"Recv", "InboxRecv"}

\* The behaviour of f has returned and f.Returned is closed (function.Call is
\* at or past its send on s.Returned).
HasReturned(f) == fpc[f] \in {"exiting", "panicking", "returned"}

----
\* subscribers creating every entry with IsFinalized false.
subscribersUnfinalized(m, t) ==
    IF t \in DOMAIN m
    THEN m
    ELSE m @@ (t :> [Members |-> {}, IsFinalized |-> FALSE])

\* session.subscribers: the map with the entry for t created if missing.
subscribers(m, t) ==
    IF t \in DOMAIN m
    THEN m
    ELSE m @@ (t :> [Members |-> {}, IsFinalized |-> IsInterface(t)])

RECURSIVE subscribersAll(_, _)
subscribersAll(m, ts) ==
    IF ts = {} THEN m
    ELSE LET t == CHOOSE x \in ts : TRUE
         IN subscribersAll(subscribers(m, t), ts \ {t})

\* session.onReady: the registry after merging f's subscriptions.
onReady(m, f) ==
    LET m1 == subscribersAll(m, Subscriptions[f])
    IN [t \in DOMAIN m1 |->
           IF t \in Subscriptions[f]
           THEN [m1[t] EXCEPT !.Members = @ \cup {f}]
           ELSE m1[t]]

\* onReturn removing f only from the sets of the types it subscribed to
\* itself, not from those deliverMessage folded it into.
onReturnDirectOnly(m, f) ==
    LET m1 == subscribersAll(m, Subscriptions[f])
    IN [t \in DOMAIN m1 |->
           IF t \in Subscriptions[f] /\ (IsInterface(t) \/ ~m1[t].IsFinalized)
           THEN [m1[t] EXCEPT !.Members = @ \ {f}]
           ELSE m1[t]]

\* session.onReturn: the registry after removing f's subscriptions.
onReturn(m, f) ==
    LET m1 == subscribersAll(m, Subscriptions[f])
    IN [t \in DOMAIN m1 |->
           IF t \in Subscriptions[f]
           THEN [m1[t] EXCEPT !.Members = @ \ {f}]
           ELSE m1[t]]

\* Folded without the test env.MessageType.Implements(subscribedType).
FoldedFromEveryInterface(m, t) ==
    UNION {m[i].Members : i \in {j \in DOMAIN m : IsInterface(j)}}

\* deliverMessage's expansion: the functions folded into the set of concrete
\* type t because they subscribe to an interface that t implements.
Folded(m, t) ==
    UNION {m[i].Members : i \in {j \in DOMAIN m : IsInterface(j) /\ Implements(t, j)}}

\* Finalize without the loop over the interface types.
FinalizeWithoutFolding(m, t) ==
    LET m1 == subscribers(m, t)
    IN [m1 EXCEPT ![t] = [Members |-> @.Members, IsFinalized |-> TRUE]]

\* deliverMessage, lines 150-164: the registry after the lookup of t.
Finalize(m, t) ==
    LET m1 == subscribers(m, t)
    IN IF m1[t].IsFinalized
       THEN m1
       ELSE [m1 EXCEPT ![t] = [Members |-> @.Members \cup Folded(m1, t),
                               IsFinalized |-> TRUE]]

\* NewlyFolded as if the expansion wrote the Subscriptions of every function
\* passed to Run.
NewlyFoldedAll(m, t) ==
    LET m1 == subscribers(m, t)
    IN IF m1[t].IsFinalized THEN {} ELSE {f \in Funcs : fpc[f] # "created"}

\* deliverMessage, line 157: the functions whose Subscriptions gain t.
NewlyFolded(m, t) ==
    LET m1 == subscribers(m, t)
    IN IF m1[t].IsFinalized THEN {} ELSE Folded(m1, t)

\* Recipients without the test recipient == env.Publisher.
RecipientsWithPublisher(m, e) == m[e.MessageType].Members

\* deliverMessage, lines 168-178: the functions a Deliver goroutine is started for.
Recipients(m, e) == {r \in m[e.MessageType].Members : r # e.Publisher}

----
Init ==
    /\ \E call \in Calls \cup QuietCalls :
          /\ cohort = {Names[i] : i \in 1..Len(call)}
          /\ impl = [f \in Funcs |->
                        IF \E i \in 1..Len(call) : Names[i] = f
                        THEN call[CHOOSE i \in 1..Len(call) : Names[i] = f]
                        ELSE <<>>]
          /\ mayFail = [f \in Funcs |-> call \in Calls]
    /\ ip = [f \in Funcs |-> 0]
    /\ parentDone = FALSE
    /\ ctxDone = FALSE
    /\ pc = "run"
    /\ pending = 0
    /\ funcs = cohort
    /\ subscribersByType = <<>>
    /\ env = ZeroEnv
    /\ delivering = {}
    /\ result = "none"
    /\ fpc = [f \in Funcs |-> "created"]
    /\ Subscriptions = [f \in Funcs |-> {}]
    /\ Ready = [f \in Funcs |-> FALSE]
    /\ Err = [f \in Funcs |-> "nil"]
    /\ inboxClosed = [f \in Funcs |-> FALSE]
    /\ outboxClosed = [f \in Funcs |-> FALSE]
    /\ returnedClosed = [f \in Funcs |-> FALSE]
    /\ nSent = [f \in Funcs |-> 0]
    /\ pumpState = [f \in Funcs |-> "none"]
    /\ queue = [f \in Funcs |-> <<>>]
    /\ index = [f \in Funcs |-> 0]
    /\ outboxNil = [f \in Funcs |-> FALSE]
    /\ inboxLog = [f \in Funcs |-> <<>>]
    /\ readyAccepted = {}
    /\ ctxErrSeen = [f \in Funcs |-> "none"]
    /\ cancelAt = "never"

----
(***************************************************************************)
(* session.run and its phases.                                            *)
(***************************************************************************)

\* run, lines 41-43: no functions, return nil.
RunEmpty ==
    /\ pc = "run"
    /\ funcs = {}
    /\ result' = "nil"
    /\ pc' = "done"
    /\ UNCHANGED <<cohort, impl, mayFail, ip, pending, funcs, subscribersByType, env, delivering,
                   ctxVars, funcVars, pumpVars, histVars>>

\* StartFuncs without run's test len(s.funcs) == 0.
StartFuncsUnguarded ==
    /\ pc = "run"
    /\ fpc' = [f \in Funcs |-> IF f \in funcs THEN "running" ELSE fpc[f]]
    /\ pending' = Cardinality(funcs)
    /\ pc' = "barrier"
    /\ UNCHANGED <<cohort, impl, mayFail, ip, funcs, subscribersByType, env, delivering, result,
                   ctxVars, Subscriptions, Ready, Err, inboxClosed, outboxClosed,
                   returnedClosed, nSent, pumpVars, histVars>>

\* run, line 45 and startFuncs, lines 61-65: derive the context, start
\* function.Call for every function, pending := len(s.funcs).
StartFuncs ==
    /\ pc = "run"
    /\ funcs # {}
    /\ fpc' = [f \in Funcs |-> IF f \in funcs THEN "running" ELSE fpc[f]]
    /\ pending' = Cardinality(funcs)
    /\ pc' = "barrier"
    /\ UNCHANGED <<cohort, impl, mayFail, ip, funcs, subscribersByType, env, delivering, result,
                   ctxVars, Subscriptions, Ready, Err, inboxClosed, outboxClosed,
                   returnedClosed, nSent, pumpVars, histVars>>

\* startFuncs' loop condition after pending--.
AfterSignal(n) == IF n > 0 THEN "barrier" ELSE "pumps"

\* startFuncs, lines 67-68: case <-ctx.Done().
BarrierCtxDone ==
    /\ pc = "barrier"
    /\ ctxDone
    /\ result' = CtxErr
    /\ pending' = 0
    /\ pc' = "cancel"
    /\ UNCHANGED <<cohort, impl, mayFail, ip, funcs, subscribersByType, env, delivering,
                   ctxVars, funcVars, pumpVars, histVars>>

\* BarrierReady without Ready's test f.Ready (facade lines 64-66).
BarrierReadyRepeated(f) ==
    /\ pc = "barrier"
    /\ Blocked(f, "Ready")
    /\ subscribersByType' = onReady(subscribersByType, f)
    /\ readyAccepted' = readyAccepted \cup {f}
    /\ fpc' = [fpc EXCEPT ![f] = "running"]
    /\ Ready' = [Ready EXCEPT ![f] = TRUE]
    /\ pending' = pending - 1
    /\ pc' = AfterSignal(pending')
    /\ ip' = [ip EXCEPT ![f] = @ + 1]
    /\ UNCHANGED <<cohort, impl, mayFail, funcs, env, delivering, result, ctxVars, Subscriptions,
                   Err, inboxClosed, outboxClosed, returnedClosed, nSent, pumpVars,
                   inboxLog, ctxErrSeen, cancelAt>>

\* startFuncs, lines 70-71: case f := <-s.Ready, with Ready's send (facade
\* lines 68-73) on the other side of the channel.
BarrierReady(f) ==
    /\ pc = "barrier"
    /\ Blocked(f, "Ready")
    /\ ~Ready[f]
    /\ subscribersByType' = onReady(subscribersByType, f)
    /\ readyAccepted' = readyAccepted \cup {f}
    /\ fpc' = [fpc EXCEPT ![f] = "running"]
    /\ Ready' = [Ready EXCEPT ![f] = TRUE]
    /\ pending' = pending - 1
    /\ pc' = AfterSignal(pending')
    /\ ip' = [ip EXCEPT ![f] = @ + 1]
    /\ UNCHANGED <<cohort, impl, mayFail, funcs, env, delivering, result, ctxVars, Subscriptions,
                   Err, inboxClosed, outboxClosed, returnedClosed, nSent, pumpVars,
                   inboxLog, ctxErrSeen, cancelAt>>

\* BarrierReturned without the test f.Err != nil.
BarrierReturnedIgnoringErr(f) ==
    /\ pc = "barrier"
    /\ fpc[f] = "exiting"
    /\ subscribersByType' = onReturn(subscribersByType, f)
    /\ funcs' = funcs \ {f}
    /\ fpc' = [fpc EXCEPT ![f] = "returned"]
    /\ result' = result
    /\ pending' = pending - 1
    /\ pc' = AfterSignal(pending')
    /\ UNCHANGED <<cohort, impl, mayFail, ip, env, delivering, ctxVars, Subscriptions, Ready, Err,
                   inboxClosed, outboxClosed, returnedClosed, nSent, pumpVars, histVars>>

\* startFuncs, lines 73-77: case f := <-s.Returned, with Call's send (line 61)
\* on the other side.
BarrierReturned(f) ==
    /\ pc = "barrier"
    /\ fpc[f] = "exiting"
    /\ subscribersByType' = onReturn(subscribersByType, f)
    /\ funcs' = funcs \ {f}
    /\ fpc' = [fpc EXCEPT ![f] = "returned"]
    /\ IF Err[f] # "nil"
       THEN /\ result' = Err[f]
            /\ pc' = "cancel"
            /\ pending' = 0
       ELSE /\ result' = result
            /\ pending' = pending - 1
            /\ pc' = AfterSignal(pending')
    /\ UNCHANGED <<cohort, impl, mayFail, ip, env, delivering, ctxVars, Subscriptions, Ready, Err,
                   inboxClosed, outboxClosed, returnedClosed, nSent, pumpVars, histVars>>

\* exchangeMessages, lines 123-125: start function.Pump for every function
\* still in s.funcs.
StartPumps ==
    /\ pc = "pumps"
    /\ pumpState' = [f \in Funcs |-> IF f \in funcs THEN "running" ELSE pumpState[f]]
    /\ pc' = "exchange"
    /\ UNCHANGED <<cohort, impl, mayFail, ip, pending, funcs, subscribersByType, env, delivering, result,
                   ctxVars, funcVars, queue, index, outboxNil, histVars>>

\* exchangeMessages, lines 127 and 145: no function left, return nil.
ExchangeEmpty ==
    /\ pc = "exchange"
    /\ funcs = {}
    /\ result' = "nil"
    /\ pc' = "cancel"
    /\ UNCHANGED <<cohort, impl, mayFail, ip, pending, funcs, subscribersByType, env, delivering,
                   ctxVars, funcVars, pumpVars, histVars>>

\* exchangeMessages, lines 129-130: case <-ctx.Done().
ExchangeCtxDone ==
    /\ pc = "exchange"
    /\ funcs # {}
    /\ ctxDone
    /\ result' = CtxErr
    /\ pc' = "cancel"
    /\ UNCHANGED <<cohort, impl, mayFail, ip, pending, funcs, subscribersByType, env, delivering,
                   ctxVars, funcVars, pumpVars, histVars>>

\* PumpLoop returning as soon as the queue is empty.
PumpLoopUntilEmpty(q, isNil) == IF Len(q) = 0 THEN "done" ELSE "running"

\* Pump, lines 97-102: at the head of the loop, return if the queue is empty
\* and the outbox is nil.
PumpLoop(q, isNil) == IF Len(q) = 0 /\ isNil THEN "done" ELSE "running"

\* PumpPop emptying the queue whenever an envelope went to the bus.
PumpPopAll(q, i) == [queue |-> <<>>, index |-> 0]

\* Pump, lines 125-131: the queue and index after the head went to the bus.
PumpPop(q, i) ==
    IF i + 1 = Len(q)
    THEN [queue |-> <<>>, index |-> 0]
    ELSE [queue |-> [q EXCEPT ![i + 1] = ZeroEnv], index |-> i + 1]

\* PumpHead taking the newest envelope of the queue instead of the oldest.
PumpNewest(q, i) == q[Len(q)]

\* Pump, line 99: env = queue[index].
PumpHead(q, i) == q[i + 1]

\* exchangeMessages, lines 132-133: case env := <-s.Bus, with Pump's send
\* (lines 124-131 and the head of its loop) on the other side, then
\* deliverMessage up to g.Wait().
ExchangeBus(p) ==
    /\ pc = "exchange"
    /\ funcs # {}
    /\ pumpState[p] = "running"
    /\ Len(queue[p]) # 0
    /\ PumpHead(queue[p], index[p]).MessageType # "nil"
    /\ LET e == PumpHead(queue[p], index[p])
           popped == PumpPop(queue[p], index[p])
           m == Finalize(subscribersByType, e.MessageType)
           folded == NewlyFolded(subscribersByType, e.MessageType)
       IN /\ queue' = [queue EXCEPT ![p] = popped.queue]
          /\ index' = [index EXCEPT ![p] = popped.index]
          /\ env' = e
          /\ subscribersByType' = m
          /\ Subscriptions' = [f \in Funcs |->
                                  IF f \in folded
                                  THEN Subscriptions[f] \cup {e.MessageType}
                                  ELSE Subscriptions[f]]
          /\ delivering' = Recipients(m, e)
          /\ pumpState' = [pumpState EXCEPT ![p] = PumpLoop(popped.queue, outboxNil[p])]
    /\ pc' = "deliver"
    /\ UNCHANGED <<cohort, impl, mayFail, ip, pending, funcs, result, ctxVars, fpc, Ready, Err,
                   inboxClosed, outboxClosed, returnedClosed, nSent, outboxNil, histVars>>

\* exchangeMessages, lines 132-133, with an envelope whose MessageType holds
\* the nil reflect.Type (reflect.TypeOf(nil), Pump line 117): no function
\* subscribes to it, so session.subscribers finds no entry and calls
\* t.Kind() (line 193) on the nil Type: a panic in Run's goroutine, which
\* unwinds through run's deferred function (lines 46-49).
ExchangeBusPanic(p) ==
    /\ pc = "exchange"
    /\ funcs # {}
    /\ pumpState[p] = "running"
    /\ Len(queue[p]) # 0
    /\ PumpHead(queue[p], index[p]).MessageType = "nil"
    /\ LET popped == PumpPop(queue[p], index[p])
       IN /\ queue' = [queue EXCEPT ![p] = popped.queue]
          /\ index' = [index EXCEPT ![p] = popped.index]
          /\ env' = PumpHead(queue[p], index[p])
          /\ pumpState' = [pumpState EXCEPT ![p] = PumpLoop(popped.queue, outboxNil[p])]
    /\ result' = "panic"
    /\ pc' = "cancel"
    /\ UNCHANGED <<cohort, impl, mayFail, ip, pending, funcs, subscribersByType, delivering,
                   ctxVars, funcVars, outboxNil, histVars>>

\* Deliver, line 140: case <-ctx.Done().
DeliverCtxDone(r) ==
    /\ pc = "deliver"
    /\ r \in delivering
    /\ ctxDone
    /\ delivering' = delivering \ {r}
    /\ UNCHANGED <<cohort, impl, mayFail, ip, pc, pending, funcs, subscribersByType, env, result,
                   ctxVars, funcVars, pumpVars, histVars>>

\* DeliverSend as if deliverMessage attempted the recipients one after the
\* other, in the order of Names, instead of in a goroutine each.
DeliverSendInTurn(r) ==
    /\ pc = "deliver"
    /\ r \in delivering
    /\ \A i, j \in 1..Len(Names) : Names[i] \in delivering /\ Names[j] = r => j <= i
    /\ Receiving(r)
    /\ ~inboxClosed[r]
    /\ delivering' = delivering \ {r}
    /\ fpc' = [fpc EXCEPT ![r] = "running"]
    /\ inboxLog' = [inboxLog EXCEPT ![r] = Append(@, env)]
    /\ ip' = [ip EXCEPT ![r] = @ + 1]
    /\ UNCHANGED <<cohort, impl, mayFail, pc, pending, funcs, subscribersByType, env, result,
                   ctxVars, Subscriptions, Ready, Err, inboxClosed, outboxClosed,
                   returnedClosed, nSent, pumpVars, readyAccepted, ctxErrSeen, cancelAt>>

\* Deliver, line 142: case f.Inbox <- env.Message, with the behaviour's
\* receive on the other side.
DeliverSend(r) ==
    /\ pc = "deliver"
    /\ r \in delivering
    /\ Receiving(r)
    /\ ~inboxClosed[r]
    /\ delivering' = delivering \ {r}
    /\ fpc' = [fpc EXCEPT ![r] = "running"]
    /\ inboxLog' = [inboxLog EXCEPT ![r] = Append(@, env)]
    /\ ip' = [ip EXCEPT ![r] = @ + 1]
    /\ UNCHANGED <<cohort, impl, mayFail, pc, pending, funcs, subscribersByType, env, result,
                   ctxVars, Subscriptions, Ready, Err, inboxClosed, outboxClosed,
                   returnedClosed, nSent, pumpVars, readyAccepted, ctxErrSeen, cancelAt>>

\* Deliver, line 151: case <-f.Returned.
DeliverReturned(r) ==
    /\ pc = "deliver"
    /\ r \in delivering
    /\ returnedClosed[r]
    /\ delivering' = delivering \ {r}
    /\ UNCHANGED <<cohort, impl, mayFail, ip, pc, pending, funcs, subscribersByType, env, result,
                   ctxVars, funcVars, pumpVars, histVars>>

\* DeliverWait without g.Wait().
DeliverWaitSkipped ==
    /\ pc = "deliver"
    /\ env' = env
    /\ IF ctxDone
       THEN /\ result' = CtxErr
            /\ pc' = "cancel"
       ELSE /\ result' = result
            /\ pc' = "exchange"
    /\ UNCHANGED <<cohort, impl, mayFail, ip, pending, funcs, subscribersByType, delivering,
                   ctxVars, funcVars, pumpVars, histVars>>

\* DeliverWait returning as soon as ctx is done, without waiting for the
\* goroutines that are still in Deliver.
DeliverWaitUnlessDone ==
    /\ pc = "deliver"
    /\ delivering = {} \/ ctxDone
    /\ env' = env
    /\ IF ctxDone
       THEN /\ result' = CtxErr
            /\ pc' = "cancel"
       ELSE /\ result' = result
            /\ pc' = "exchange"
    /\ UNCHANGED <<cohort, impl, mayFail, ip, pending, funcs, subscribersByType, delivering,
                   ctxVars, funcVars, pumpVars, histVars>>

\* deliverMessage, lines 180-182 and exchangeMessages, lines 133-135:
\* g.Wait() returns, return ctx.Err().
DeliverWait ==
    /\ pc = "deliver"
    /\ delivering = {}
    /\ env' = ZeroEnv
    /\ IF ctxDone
       THEN /\ result' = CtxErr
            /\ pc' = "cancel"
       ELSE /\ result' = result
            /\ pc' = "exchange"
    /\ UNCHANGED <<cohort, impl, mayFail, ip, pending, funcs, subscribersByType, delivering,
                   ctxVars, funcVars, pumpVars, histVars>>

\* ExchangeReturned without the test f.Err != nil.
ExchangeReturnedIgnoringErr(f) ==
    /\ pc = "exchange"
    /\ funcs # {}
    /\ fpc[f] = "exiting"
    /\ subscribersByType' = onReturn(subscribersByType, f)
    /\ funcs' = funcs \ {f}
    /\ fpc' = [fpc EXCEPT ![f] = "returned"]
    /\ UNCHANGED <<cohort, impl, mayFail, ip, pc, pending, env, delivering, result, ctxVars,
                   Subscriptions, Ready, Err, inboxClosed, outboxClosed, returnedClosed,
                   nSent, pumpVars, histVars>>

\* exchangeMessages, lines 137-141: case f := <-s.Returned.
ExchangeReturned(f) ==
    /\ pc = "exchange"
    /\ funcs # {}
    /\ fpc[f] = "exiting"
    /\ subscribersByType' = onReturn(subscribersByType, f)
    /\ funcs' = funcs \ {f}
    /\ fpc' = [fpc EXCEPT ![f] = "returned"]
    /\ IF Err[f] # "nil"
       THEN /\ result' = Err[f]
            /\ pc' = "cancel"
       ELSE /\ result' = result
            /\ pc' = "exchange"
    /\ UNCHANGED <<cohort, impl, mayFail, ip, pending, env, delivering, ctxVars, Subscriptions, Ready,
                   Err, inboxClosed, outboxClosed, returnedClosed, nSent, pumpVars,
                   histVars>>

\* Cancel without the call of cancel().
CancelSkipped ==
    /\ pc = "cancel"
    /\ pc' = "stop"
    /\ UNCHANGED <<cohort, impl, mayFail, ip, pending, funcs, subscribersByType, env, delivering, result,
                   ctxVars, funcVars, pumpVars, histVars>>

\* run, lines 46-47: the deferred cancel().
Cancel ==
    /\ pc = "cancel"
    /\ ctxDone' = TRUE
    /\ pc' = "stop"
    /\ UNCHANGED <<cohort, impl, mayFail, ip, pending, funcs, subscribersByType, env, delivering, result,
                   parentDone, funcVars, pumpVars, histVars>>

\* StopClose without the calls of close(f.Inbox).
StopCloseSkipped ==
    /\ pc = "stop"
    /\ pc' = "wait"
    /\ UNCHANGED <<cohort, impl, mayFail, ip, pending, funcs, subscribersByType, env, delivering, result,
                   ctxVars, funcVars, pumpVars, histVars>>

\* stopFuncs, lines 86-88: close the inbox of every function in s.funcs.
StopClose ==
    /\ pc = "stop"
    /\ inboxClosed' = [f \in Funcs |-> IF f \in funcs THEN TRUE ELSE inboxClosed[f]]
    /\ pc' = "wait"
    /\ UNCHANGED <<cohort, impl, mayFail, ip, pending, funcs, subscribersByType, env, delivering, result,
                   ctxVars, fpc, Subscriptions, Ready, Err, outboxClosed,
                   returnedClosed, nSent, pumpVars, histVars>>

\* stopFuncs, lines 90-93: f := <-s.Returned; s.onReturn(ctx, f).
StopReturned(f) ==
    /\ pc = "wait"
    /\ funcs # {}
    /\ fpc[f] = "exiting"
    /\ subscribersByType' = onReturn(subscribersByType, f)
    /\ funcs' = funcs \ {f}
    /\ fpc' = [fpc EXCEPT ![f] = "returned"]
    /\ UNCHANGED <<cohort, impl, mayFail, ip, pc, pending, env, delivering, result, ctxVars,
                   Subscriptions, Ready, Err, inboxClosed, outboxClosed,
                   returnedClosed, nSent, pumpVars, histVars>>

\* StopDone without the loop condition len(s.funcs) > 0.
StopDoneWithoutWaiting ==
    /\ pc = "wait"
    /\ pc' = "done"
    /\ UNCHANGED <<cohort, impl, mayFail, ip, pending, funcs, subscribersByType, env, delivering, result,
                   ctxVars, funcVars, pumpVars, histVars>>

\* stopFuncs, line 90 and run's return: no function left, Run returns.
StopDone ==
    /\ pc = "wait"
    /\ funcs = {}
    /\ result # "panic"
    /\ pc' = "done"
    /\ UNCHANGED <<cohort, impl, mayFail, ip, pending, funcs, subscribersByType, env, delivering, result,
                   ctxVars, funcVars, pumpVars, histVars>>

\* stopFuncs, line 90, while Run's goroutine is panicking: run's deferred
\* function returns and the panic goes on to Run's caller; nothing in the
\* package recovers it, and the program ends.
StopPanic ==
    /\ pc = "wait"
    /\ funcs = {}
    /\ result = "panic"
    /\ pc' = "aborted"
    /\ pumpState' = [g \in Funcs |-> IF pumpState[g] = "running" THEN "aborted" ELSE pumpState[g]]
    /\ UNCHANGED <<cohort, impl, mayFail, ip, pending, funcs, subscribersByType, env, delivering, result,
                   ctxVars, funcVars, queue, index, outboxNil, histVars>>

----
(***************************************************************************)
(* The behaviours: function.impl running the operations of its program.   *)
(***************************************************************************)

\* The errors a behaviour may return: nil or, if its code has such a path, an
\* error of its own.
ErrorsOf(f) == IF mayFail[f] THEN {"nil", f} ELSE {"nil"}

\* Returns going straight to the send on s.Returned, without close(f.Returned).
ReturnsWithoutClose(f, e) ==
    /\ Err' = [Err EXCEPT ![f] = e]
    /\ outboxClosed' = [outboxClosed EXCEPT ![f] = TRUE]
    /\ returnedClosed' = returnedClosed
    /\ fpc' = [fpc EXCEPT ![f] = "exiting"]
    /\ ip' = [ip EXCEPT ![f] = Len(Program(f))]
    /\ Ready' = Ready

\* Returns with close(f.Returned) in the place of close(f.Outbox).
ReturnsClosingReturnedFirst(f, e) ==
    /\ Err' = [Err EXCEPT ![f] = e]
    /\ outboxClosed' = outboxClosed
    /\ returnedClosed' = [returnedClosed EXCEPT ![f] = TRUE]
    /\ fpc' = [fpc EXCEPT ![f] = "closing"]
    /\ ip' = [ip EXCEPT ![f] = Len(Program(f))]
    /\ Ready' = Ready

\* Call, lines 58-59 and 66-68: f.Err = f.impl(...), then the deferred
\* function starts with close(f.Outbox).
Returns(f, e) ==
    /\ Err' = [Err EXCEPT ![f] = e]
    /\ outboxClosed' = [outboxClosed EXCEPT ![f] = TRUE]
    /\ returnedClosed' = returnedClosed
    /\ fpc' = [fpc EXCEPT ![f] = "closing"]
    /\ ip' = [ip EXCEPT ![f] = Len(Program(f))]
    /\ Ready' = Ready

\* Call, lines 60-61: close(f.Returned); Call then blocks in
\* f.Session.Returned <- f.
CloseReturned(f) ==
    /\ fpc[f] \in {"closing", "unwinding"}
    /\ returnedClosed' = [returnedClosed EXCEPT ![f] = TRUE]
    /\ fpc' = [fpc EXCEPT ![f] = IF @ = "closing" THEN "exiting" ELSE "panicking"]
    /\ UNCHANGED <<cohort, impl, mayFail, ip, orchVars, ctxVars, Subscriptions, Ready, Err,
                   inboxClosed, outboxClosed, nSent, pumpVars, histVars>>

\* Subscribe without the test f.Ready (facade lines 48-50).
SubscribeAfterReady(f) ==
    /\ fpc[f] = "running"
    /\ IsSubscribe(Op(f))
    /\ Subscriptions' = [Subscriptions EXCEPT ![f] = @ \cup {SubType(Op(f))}]
    /\ ip' = [ip EXCEPT ![f] = @ + 1]
    /\ UNCHANGED <<cohort, impl, mayFail, orchVars, ctxVars, fpc, Ready, Err, inboxClosed,
                   outboxClosed, returnedClosed, nSent, pumpVars, histVars>>

\* Subscribe (facade lines 46-55), called before Ready.
Subscribe(f) ==
    /\ fpc[f] = "running"
    /\ IsSubscribe(Op(f))
    /\ ~Ready[f]
    /\ Subscriptions' = [Subscriptions EXCEPT ![f] = @ \cup {SubType(Op(f))}]
    /\ ip' = [ip EXCEPT ![f] = @ + 1]
    /\ UNCHANGED <<cohort, impl, mayFail, orchVars, ctxVars, fpc, Ready, Err, inboxClosed,
                   outboxClosed, returnedClosed, nSent, pumpVars, histVars>>

\* Ready (facade lines 63-66): f.Ready is set, return.
ReadyAgain(f) ==
    /\ Blocked(f, "Ready")
    /\ Ready[f]
    /\ ip' = [ip EXCEPT ![f] = @ + 1]
    /\ UNCHANGED <<cohort, impl, mayFail, orchVars, ctxVars, funcVars, pumpVars, histVars>>

\* Ready (facade lines 69 and 73): case <-ctx.Done(), then f.Ready = true.
ReadyCtxDone(f) ==
    /\ Blocked(f, "Ready")
    /\ ~Ready[f]
    /\ ctxDone
    /\ fpc' = [fpc EXCEPT ![f] = "running"]
    /\ Ready' = [Ready EXCEPT ![f] = TRUE]
    /\ ip' = [ip EXCEPT ![f] = @ + 1]
    /\ UNCHANGED <<cohort, impl, mayFail, orchVars, ctxVars, Subscriptions, Err, inboxClosed,
                   outboxClosed, returnedClosed, nSent, pumpVars, histVars>>

\* Send (facade lines 100-101): case <-ctx.Done(), return ctx.Err(); the
\* behaviour returns.  A send on the channel returned by Outbox has no such
\* case.
SendCtxDone(f, e) ==
    /\ Sending(f)
    /\ Op(f) \notin {"OutboxSend", "IngestSend"}
    /\ ctxDone
    /\ Returns(f, e)
    /\ UNCHANGED <<cohort, impl, mayFail, orchVars, ctxVars, Subscriptions, inboxClosed,
                   nSent, pumpVars, histVars>>

\* Receive (facade lines 110-111): case <-ctx.Done(), return ctx.Err(); the
\* behaviour returns.
ReceiveCtxDone(f, e) ==
    /\ Blocked(f, "Recv")
    /\ ctxDone
    /\ Returns(f, e)
    /\ UNCHANGED <<cohort, impl, mayFail, orchVars, ctxVars, Subscriptions, inboxClosed,
                   nSent, pumpVars, histVars>>

\* A receive on the closed inbox (in Receive, facade line 112, or on the channel
\* returned by Inbox) yields at once; the behaviour returns.
ReceiveClosed(f, e) ==
    /\ Receiving(f)
    /\ inboxClosed[f]
    /\ Returns(f, e)
    /\ UNCHANGED <<cohort, impl, mayFail, orchVars, ctxVars, Subscriptions, inboxClosed,
                   nSent, pumpVars, histVars>>

\* <-ctx.Done() yields and the behaviour reads ctx.Err().
CtxObserved(f) ==
    /\ Blocked(f, "Wait")
    /\ ctxDone
    /\ fpc' = [fpc EXCEPT ![f] = "running"]
    /\ ip' = [ip EXCEPT ![f] = @ + 1]
    /\ ctxErrSeen' = [ctxErrSeen EXCEPT ![f] = CtxErr]
    /\ UNCHANGED <<cohort, impl, mayFail, orchVars, ctxVars, Subscriptions, Ready, Err,
                   inboxClosed, outboxClosed, returnedClosed, nSent, pumpVars,
                   inboxLog, readyAccepted, cancelAt>>

\* Ingest, lines 15-16 with ok: a value is taken from the source.
IngestTake(f) ==
    /\ Blocked(f, "Take")
    /\ ip[f] + 1 < Len(Program(f))
    /\ ip' = [ip EXCEPT ![f] = @ + 1]
    /\ UNCHANGED <<cohort, impl, mayFail, orchVars, ctxVars, funcVars, pumpVars, histVars>>

\* Ingest, lines 16-18: the source is closed and empty, return nil.
IngestClosed(f) ==
    /\ Blocked(f, "Take")
    /\ ip[f] + 1 = Len(Program(f))
    /\ Returns(f, "nil")
    /\ UNCHANGED <<cohort, impl, mayFail, orchVars, ctxVars, Subscriptions, inboxClosed,
                   nSent, pumpVars, histVars>>

\* Ingest, lines 13-14: case <-ctx.Done(), return ctx.Err().
IngestCtxDone(f) ==
    /\ Blocked(f, "Take")
    /\ ctxDone
    /\ Returns(f, CtxErr)
    /\ UNCHANGED <<cohort, impl, mayFail, orchVars, ctxVars, Subscriptions, inboxClosed,
                   nSent, pumpVars, histVars>>

\* Ingest, lines 19-21: Send returns ctx.Err() (facade lines 100-101), and
\* Ingest returns it.
IngestSendCtxDone(f) ==
    /\ Blocked(f, "IngestSend")
    /\ ctxDone
    /\ Returns(f, CtxErr)
    /\ UNCHANGED <<cohort, impl, mayFail, orchVars, ctxVars, Subscriptions, inboxClosed,
                   nSent, pumpVars, histVars>>

\* The behaviour is at a call the facade answers with a panic: any operation
\* on a context without a function (caller, lines 43-48), Subscribe with
\* f.Ready set (facade lines 48-50).
Misuse(f) ==
    \/ Op(f) = "Foreign"
    \/ IsSubscribe(Op(f)) /\ Ready[f]

\* The panic unwinds the behaviour's goroutine: f.Err is not assigned, Call's
\* deferred function starts with close(f.Outbox).
Panic(f) ==
    /\ fpc[f] = "running"
    /\ Misuse(f)
    /\ outboxClosed' = [outboxClosed EXCEPT ![f] = TRUE]
    /\ returnedClosed' = returnedClosed
    /\ fpc' = [fpc EXCEPT ![f] = "unwinding"]
    /\ UNCHANGED <<cohort, impl, mayFail, ip, orchVars, ctxVars, Subscriptions, Ready, Err,
                   inboxClosed, nSent, pumpVars, histVars>>

\* The orchestrator receives the returned signal of a panicking function
\* (startFuncs line 73, exchangeMessages line 137 or stopFuncs line 91, each
\* followed by onReturn); Call's deferred function returns and the panic,
\* which nothing recovers, ends the program with all its goroutines.
PanicReceived(f) ==
    /\ \/ pc = "barrier"
       \/ pc \in {"exchange", "wait"} /\ funcs # {}
    /\ fpc[f] = "panicking"
    /\ subscribersByType' = onReturn(subscribersByType, f)
    /\ funcs' = funcs \ {f}
    /\ pc' = "aborted"
    /\ fpc' = [g \in Funcs |-> IF g \in cohort THEN "aborted" ELSE fpc[g]]
    /\ pumpState' = [g \in Funcs |-> IF pumpState[g] = "running" THEN "aborted" ELSE pumpState[g]]
    /\ UNCHANGED <<cohort, impl, mayFail, ip, pending, env, delivering, result, ctxVars,
                   Subscriptions, Ready, Err, inboxClosed, outboxClosed, returnedClosed,
                   nSent, queue, index, outboxNil, histVars>>

\* The behaviour comes to the end of its program.
Return(f, e) ==
    /\ Blocked(f, "Return")
    /\ Returns(f, e)
    /\ UNCHANGED <<cohort, impl, mayFail, orchVars, ctxVars, Subscriptions, inboxClosed,
                   nSent, pumpVars, histVars>>

----
(***************************************************************************)
(* function.Pump.                                                         *)
(***************************************************************************)

\* Pump, lines 114-119: the envelope of the n-th message of f, of type t.
NewEnvelope(f, n, t) ==
    [Publisher |-> f, MessageType |-> t, Message |-> n]

\* PumpAccept as if the Pump held one envelope at most: it receives from the
\* outbox only while its queue is empty.
PumpAcceptWhenEmpty(f) ==
    /\ pumpState[f] = "running"
    /\ ~outboxNil[f]
    /\ Sending(f)
    /\ Len(queue[f]) = 0
    /\ queue' = [queue EXCEPT ![f] = Append(@, NewEnvelope(f, nSent[f] + 1, SendType(Op(f))))]
    /\ nSent' = [nSent EXCEPT ![f] = @ + 1]
    /\ fpc' = [fpc EXCEPT ![f] = "running"]
    /\ ip' = [ip EXCEPT ![f] = @ + 1]
    /\ UNCHANGED <<cohort, impl, mayFail, orchVars, ctxVars, Subscriptions, Ready, Err, inboxClosed,
                   outboxClosed, returnedClosed, pumpState, index, outboxNil, histVars>>

\* Pump, lines 108 and 114-121: case m, ok := <-outbox with ok, with the
\* behaviour's send on the other side.
PumpAccept(f) ==
    /\ pumpState[f] = "running"
    /\ ~outboxNil[f]
    /\ Sending(f)
    /\ queue' = [queue EXCEPT ![f] = Append(@, NewEnvelope(f, nSent[f] + 1, SendType(Op(f))))]
    /\ nSent' = [nSent EXCEPT ![f] = @ + 1]
    /\ fpc' = [fpc EXCEPT ![f] = "running"]
    /\ ip' = [ip EXCEPT ![f] = @ + 1]
    /\ UNCHANGED <<cohort, impl, mayFail, orchVars, ctxVars, Subscriptions, Ready, Err, inboxClosed,
                   outboxClosed, returnedClosed, pumpState, index, outboxNil, histVars>>

\* Pump, lines 108-112 and 97-102: the outbox is closed, outbox = nil,
\* continue.
PumpOutboxClosed(f) ==
    /\ pumpState[f] = "running"
    /\ ~outboxNil[f]
    /\ outboxClosed[f]
    /\ outboxNil' = [outboxNil EXCEPT ![f] = TRUE]
    /\ pumpState' = [pumpState EXCEPT ![f] = PumpLoop(queue[f], TRUE)]
    /\ UNCHANGED <<cohort, impl, mayFail, ip, orchVars, ctxVars, funcVars, queue, index, histVars>>

\* PumpCtxDone with a case that is ready whether or not the context is done.
PumpReturnsAtWill(f) ==
    /\ pumpState[f] = "running"
    /\ pumpState' = [pumpState EXCEPT ![f] = "done"]
    /\ UNCHANGED <<cohort, impl, mayFail, ip, orchVars, ctxVars, funcVars, queue, index, outboxNil, histVars>>

\* Pump, lines 105-106: case <-ctx.Done(), return.
PumpCtxDone(f) ==
    /\ pumpState[f] = "running"
    /\ ctxDone
    /\ pumpState' = [pumpState EXCEPT ![f] = "done"]
    /\ UNCHANGED <<cohort, impl, mayFail, ip, orchVars, ctxVars, funcVars, queue, index, outboxNil, histVars>>

----
\* Run is in startFuncs or exchangeMessages, some behaviour is still running
\* and no behaviour has returned an error.
RunningCleanly ==
    /\ pc \in {"barrier", "pumps", "exchange", "deliver"}
    /\ \E f \in cohort : ~HasReturned(f)
    /\ \A f \in cohort : Err[f] = "nil"

\* The caller cancels the context it passed to Run (messaging_test.go, lines
\* 184-189); the session's context is derived from it. To a session with
\* functions, a context done before Run is called is one cancelled before the
\* first select of startFuncs.  The calls of QuietCalls are made with a
\* context that is never cancelled.
ParentCancel ==
    /\ ~parentDone
    /\ \E f \in Funcs : mayFail[f]
    /\ pc \notin {"done", "aborted"}
    /\ pc = "run" => cohort = {}
    /\ parentDone' = TRUE
    /\ ctxDone' = TRUE
    /\ cancelAt' = IF RunningCleanly THEN "running" ELSE "other"
    /\ UNCHANGED <<cohort, impl, mayFail, ip, orchVars, funcVars, pumpVars, inboxLog,
                   readyAccepted, ctxErrSeen>>

\* The steps of the session's own goroutines.
SessionNext ==
    \/ RunEmpty
    \/ StartFuncs
    \/ BarrierCtxDone
    \/ \E f \in Funcs : BarrierReady(f)
    \/ \E f \in Funcs : BarrierReturned(f)
    \/ StartPumps
    \/ ExchangeEmpty
    \/ ExchangeCtxDone
    \/ \E p \in Funcs : ExchangeBus(p)
    \/ \E p \in Funcs : ExchangeBusPanic(p)
    \/ \E r \in Funcs : DeliverCtxDone(r)
    \/ \E r \in Funcs : DeliverSend(r)
    \/ \E r \in Funcs : DeliverReturned(r)
    \/ DeliverWait
    \/ \E f \in Funcs : ExchangeReturned(f)
    \/ Cancel
    \/ StopClose
    \/ \E f \in Funcs : StopReturned(f)
    \/ StopDone
    \/ StopPanic
    \/ \E f \in Funcs : Subscribe(f)
    \/ \E f \in Funcs : ReadyAgain(f)
    \/ \E f \in Funcs : ReadyCtxDone(f)
    \/ \E f \in Funcs : \E e \in ErrorsOf(f) : SendCtxDone(f, e)
    \/ \E f \in Funcs : \E e \in ErrorsOf(f) : ReceiveCtxDone(f, e)
    \/ \E f \in Funcs : \E e \in ErrorsOf(f) : ReceiveClosed(f, e)
    \/ \E f \in Funcs : CtxObserved(f)
    \/ \E f \in Funcs : \E e \in ErrorsOf(f) : Return(f, e)
    \/ \E f \in Funcs : IngestTake(f)
    \/ \E f \in Funcs : IngestClosed(f)
    \/ \E f \in Funcs : IngestCtxDone(f)
    \/ \E f \in Funcs : IngestSendCtxDone(f)
    \/ \E f \in Funcs : CloseReturned(f)
    \/ \E f \in Funcs : Panic(f)
    \/ \E f \in Funcs : PanicReceived(f)
    \/ \E f \in Funcs : PumpAccept(f)
    \/ \E f \in Funcs : PumpOutboxClosed(f)
    \/ \E f \in Funcs : PumpCtxDone(f)

Next ==
    \/ SessionNext
    \/ ParentCancel

Spec == Init /\ [][Next]_vars

\* The Go scheduler runs a goroutine that can take a step; the caller is under
\* no obligation to cancel its context.
FairSpec == Init /\ [][Next]_vars /\ WF_vars(SessionNext)

----
(***************************************************************************)
(* The claims.                                                            *)
(***************************************************************************)

\* The behaviour of f has declared readiness (its ready signal was received by
\* startFuncs) or has returned.
ReadyOrReturned(f) == f \in readyAccepted \/ HasReturned(f)

\* C1: no message is placed into any inbox while some function of the call has
\* neither declared readiness (Ready accepted by the orchestrator) nor returned.
\* Readiness and return are permanent, so a delivery made too early shows in
\* the state right after it.
C1_NoDeliveryBeforeAllReady ==
    \A r \in Funcs :
        inboxLog[r] # <<>> => \A f \in cohort : ReadyOrReturned(f)

\* The envelopes whose message went into the inbox of r, as positions.
Received(r) == 1..Len(inboxLog[r])

\* C2: a message published by P is never placed into P's own inbox, also when
\* P subscribes to the message's type or to an interface the type satisfies.
C2_NoDeliveryToPublisher ==
    \A r \in Funcs : \A i \in Received(r) : inboxLog[r][i].Publisher # r

\* C2's case: a message went to another function's inbox while its publisher
\* is itself among the subscribers of the message's type, having subscribed to
\* the type and to an interface it satisfies.
C2_PublisherSubscribed ==
    /\ pc = "deliver"
    /\ env.MessageType \in DOMAIN subscribersByType
    /\ env.Publisher \in subscribersByType[env.MessageType].Members
    /\ {"T", "I"} \subseteq Subscriptions[env.Publisher]
    /\ \E r \in Funcs : \E i \in Received(r) : inboxLog[r][i] = env

\* C3: whenever Run has returned, with any result, every behaviour it started
\* has returned and has been removed from the registered set.
C3_ReturnsAfterAllReturned ==
    pc = "done" => funcs = {} /\ \A f \in cohort : fpc[f] = "returned"

\* C3's case: Run has returned nil from a call of three functions that
\* exchanged messages.
C3_ReturnedNilAfterExchange ==
    /\ pc = "done"
    /\ result = "nil"
    /\ Cardinality(cohort) = 3
    /\ \E r \in Funcs : inboxLog[r] # <<>>

\* C4: when Run has returned, no Pump goroutine started for the session is
\* still running.
C4_NoPumpOutlivesRun ==
    pc = "done" => \A f \in Funcs : pumpState[f] # "running"

\* Some behaviour has returned a non-nil error.
SomeError == \E f \in cohort : HasReturned(f) /\ Err[f] # "nil"

\* C5: once a behaviour has returned a non-nil error, Run eventually returns.
\* Every behaviour of the model returns once its context is cancelled or its
\* inbox is closed, so the claim's premise holds in every call.
C5_ErrorEndsRun == SomeError ~> (pc = "done")

\* The non-nil errors the behaviours have returned.
ReturnedErrors == {Err[f] : f \in cohort} \ {"nil"}

\* C6: with no cancellation by the caller, if some behaviour returned a
\* non-nil error then, once Run has returned, its result is the error of one
\* of those behaviours; and a result once chosen is never replaced.
C6_ResultIsAFunctionError ==
    /\ [](pc = "done" /\ ~parentDone /\ ReturnedErrors # {} => result \in ReturnedErrors)
    /\ [][result # "none" => result' = result]_vars

\* C6's case: Run has returned, the caller never cancelled, and two behaviours
\* returned errors, one of them during the teardown.
C6_TwoErrors ==
    /\ pc = "done"
    /\ ~parentDone
    /\ Cardinality(ReturnedErrors) >= 2

\* The program of g waits on ctx.Done.
Waits(g) == \E i \in 1..Len(impl[g]) : impl[g][i] = "Wait"

\* C7: if a behaviour returned an error then, once Run has returned, the
\* context of the behaviours is cancelled and every behaviour that waits on
\* ctx.Done has observed context.Canceled.
C7_ErrorCancelsContext ==
    pc = "done" /\ ReturnedErrors # {} =>
        /\ ctxDone
        /\ \A g \in cohort : Waits(g) => ctxErrSeen[g] = "Canceled"

\* C7's case: one behaviour returned an error of its own accord, another only
\* waits on ctx.Done, the caller did not cancel, and Run has returned.
C7_WaiterCancelledByError ==
    /\ pc = "done"
    /\ ~parentDone
    /\ \E f, g \in cohort :
          /\ f # g
          /\ Err[f] # "nil"
          /\ impl[g] = Waiter
          /\ Err[g] = "nil"
          /\ ctxErrSeen[g] = "Canceled"

\* C8: if the caller cancelled its context while behaviours were running and
\* no behaviour had returned an error, Run returns the cancellation error.
C8_CancelledRunReturnsCtxErr ==
    pc = "done" /\ cancelAt = "running" => result = "Canceled"

\* C9: with no behaviours Run returns nil at once: no behaviour and no Pump is
\* started, the barrier and exchange phases are not entered, and the derived
\* context is never created or cancelled, whatever the caller's context.
C9_EmptyRun ==
    cohort = {} =>
        /\ pc \in {"run", "done"}
        /\ pc = "done" => result = "nil"
        /\ ctxDone = parentDone
        /\ \A f \in Funcs : fpc[f] = "created" /\ pumpState[f] = "none"

\* C9's case: Run without behaviours has returned nil after the caller's
\* context was done.
C9_EmptyRunCancelled ==
    /\ cohort = {}
    /\ pc = "done"
    /\ parentDone
    /\ result = "nil"

\* C10: the messages of one sender are placed into a recipient's inbox in the
\* order the sender sent them (Message is the message's position among the
\* sender's sends).
C10_SenderOrder ==
    \A r \in Funcs : \A i, j \in Received(r) :
        i < j /\ inboxLog[r][i].Publisher = inboxLog[r][j].Publisher
            => inboxLog[r][i].Message < inboxLog[r][j].Message

\* C10's case: a recipient has received two messages of one sender with a
\* message of another sender between them.
C10_Interleaved ==
    \E r \in Funcs : \E i, j, k \in Received(r) :
        /\ i < j /\ j < k
        /\ inboxLog[r][i].Publisher = inboxLog[r][k].Publisher
        /\ inboxLog[r][j].Publisher # inboxLog[r][i].Publisher
        /\ inboxLog[r][i].Message = 1
        /\ inboxLog[r][k].Message = 2

\* f subscribes to t directly or to an interface that t implements.
Matches(f, t) ==
    \/ t \in Subscriptions[f]
    \/ \E i \in Subscriptions[f] : IsInterface(i) /\ Implements(t, i)

\* The number of copies of the envelope e that went into the inbox of r.
Copies(r, e) == Cardinality({i \in Received(r) : inboxLog[r][i] = e})

\* deliverMessage has come to the end of g.Wait() for env.
FanOutComplete == pc = "deliver" /\ delivering = {}

\* C11: when the fan-out of a message is complete and the context is not
\* cancelled, every registered function other than the publisher that
\* subscribes to the message's type or to an interface it implements, and has
\* not returned, has exactly one copy of it; and no inbox ever gets a second
\* copy of a message.
C11_ExactlyOneCopy ==
    /\ FanOutComplete /\ ~ctxDone =>
          \A r \in readyAccepted \ {env.Publisher} :
              ~HasReturned(r) /\ Matches(r, env.MessageType) => Copies(r, env) = 1
    /\ \A r \in Funcs : \A i \in Received(r) : Copies(r, inboxLog[r][i]) = 1

\* C11's case: a fan-out is complete, without cancellation, in which one
\* function got its copy through its subscription to the type and another
\* through its subscription to the interface.
C11_FanOutToTypeAndInterface ==
    /\ FanOutComplete
    /\ ~ctxDone
    /\ \E a, b \in cohort :
          /\ impl[a] = SubscriberT
          /\ impl[b] = SubscriberI
          /\ Copies(a, env) = 1
          /\ Copies(b, env) = 1

\* The types the behaviour of f has called Subscribe for.
Subscribed(f) ==
    {SubType(Program(f)[i]) : i \in {j \in 1..ip[f] : IsSubscribe(Program(f)[j])}}

\* C12: every message that went into the inbox of a function is of a type the
\* function subscribed to, or of a type that implements an interface the
\* function subscribed to.
C12_OnlySubscribedTypes ==
    \A r \in Funcs : \A i \in Received(r) :
        LET t == inboxLog[r][i].MessageType
        IN \/ t \in Subscribed(r)
           \/ \E j \in Subscribed(r) : j = "I" /\ t = "T"

\* C12's case: the fan-out of a message of type U is complete while a
\* registered function that subscribed to other types only is waiting to
\* receive, and has received nothing.
C12_UnmatchedNotDelivered ==
    /\ FanOutComplete
    /\ env.MessageType = "U"
    /\ \E r \in readyAccepted :
          /\ Subscribed(r) = {"I"}
          /\ Blocked(r, "Recv")
          /\ inboxLog[r] = <<>>

\* exchangeMessages is past the start of the Pumps.
PumpsStarted == pc \in {"exchange", "deliver"}

\* C13: once the Pumps are started every function still registered has a
\* Pump, and while the context is not cancelled the Pump of a function that is
\* sending on its outbox is ready to accept the send, whatever the
\* orchestrator and the recipients are doing; only the cancellation of the
\* context takes that readiness away, so the send is accepted once the Pump
\* is scheduled.
C13_SendAccepted ==
    \A f \in cohort :
        /\ PumpsStarted /\ f \in funcs => pumpState[f] # "none"
        /\ pumpState[f] # "none" /\ ~ctxDone /\ Sending(f) => ENABLED PumpAccept(f)

\* C13's case: the orchestrator is blocked in the fan-out of a function's
\* first message to a recipient that never receives, the context is not
\* cancelled, and all later sends of the function have been accepted.
C13_AcceptedDuringStuckFanOut ==
    /\ pc = "deliver"
    /\ ~ctxDone
    /\ \E r \in delivering : Blocked(r, "Wait")
    /\ env.Message = 1
    /\ nSent[env.Publisher] = MaxSends
    /\ MaxSends > 1

\* The behaviour of g has called Ready (it is in the call or past it) or has
\* returned.
CalledReadyOrReturned(g) ==
    \/ g \in readyAccepted
    \/ Ready[g]
    \/ Blocked(g, "Ready")
    \/ HasReturned(g)

\* C14: no send on an outbox is accepted while some function of the call has
\* neither called Ready nor returned.
C14_NoSendBeforeAllReady ==
    [][\A f \in Funcs :
          nSent'[f] # nSent[f] => \A g \in cohort : CalledReadyOrReturned(g)]_vars

\* C15: a delivery attempt to a recipient that has returned can terminate at
\* once; nothing goes into the inbox of a function that has returned; the
\* end of an attempt produces no error and leaves the session where it is; and
\* a fan-out that ends without cancellation takes the session back to the
\* exchange of messages with no result set.
C15_ReturnedRecipientDropped ==
    /\ [](\A r \in Funcs :
            pc = "deliver" /\ r \in delivering /\ HasReturned(r)
                => ENABLED DeliverReturned(r))
    /\ [][\A r \in Funcs : HasReturned(r) => inboxLog'[r] = inboxLog[r]]_vars
    /\ [][delivering' # delivering /\ pc = "deliver"
              => pc' = "deliver" /\ result' = result /\ Err' = Err]_vars
    /\ [][pc = "deliver" /\ pc' # "deliver" /\ ~ctxDone
              => pc' = "exchange" /\ result' = result]_vars

\* C15's case: in a fan-out, without cancellation, the attempt for a recipient
\* that has returned nil has ended with nothing in its inbox, and another
\* recipient has received the message.
C15_DroppedForReturned ==
    /\ pc = "deliver"
    /\ ~ctxDone
    /\ \E r \in Recipients(subscribersByType, env) \ delivering :
          /\ HasReturned(r)
          /\ Err[r] = "nil"
          /\ inboxLog[r] = <<>>
    /\ \E b \in Funcs : Copies(b, env) = 1

\* The positions of the sends in the program of f, and the type of its n-th
\* message.
Sends(f) == {i \in 1..Len(Program(f)) : IsSend(Program(f)[i])}
NthSendType(f, n) ==
    SendType(Program(f)[CHOOSE i \in Sends(f) : Cardinality({j \in Sends(f) : j <= i}) = n])

\* The envelopes the Pump of f has accepted.
Accepted(f) == {NewEnvelope(f, n, NthSendType(f, n)) : n \in 1..nSent[f]}

\* The behaviour of r has subscribed to the type t or to an interface that t
\* implements.
WantsType(r, t) == t \in Subscribed(r) \/ (t = "T" /\ "I" \in Subscribed(r))

\* No goroutine of the session can take a step: the run has ended, or goes on
\* only if the caller cancels.  (A program ended by a panic is not a run.)
Quiescent == pc # "aborted" /\ ~ENABLED SessionNext

\* The caller has not cancelled and no behaviour has returned an error.
NoCancelNoError == ~parentDone /\ \A f \in cohort : Err[f] = "nil"

\* The behaviour of r is waiting for its next message, or on its way to it in
\* Ready.
StillReceiving(r) == Blocked(r, "Recv") \/ Blocked(r, "Ready")

\* C16: without cancellation and errors, every message accepted by a Pump is
\* eventually delivered to each function that subscribed to it and keeps
\* receiving.  Every run comes to a state in which the session can do nothing
\* more; there each accepted message must be in the inbox of each such
\* function.
C16_AcceptedIsDelivered ==
    Quiescent /\ NoCancelNoError =>
        \A f, r \in cohort : \A e \in Accepted(f) :
            r # f /\ WantsType(r, e.MessageType) /\ StillReceiving(r)
                => Copies(r, e) = 1

\* The behaviour of f only subscribes and declares readiness, then returns.
ReturnsOnItsOwn(f) ==
    \A i \in 1..Len(Program(f)) : Program(f)[i] \in {"SubT", "SubI", "Ready"}

\* C17: if every behaviour returns nil on its own and the context is never
\* cancelled, Run eventually returns nil: when the session can do nothing
\* more, Run has returned nil (and no behaviour is left blocked in Ready).
C17_AllReturnThenRunReturns ==
    /\ Quiescent
    /\ NoCancelNoError
    /\ \A f \in cohort : ReturnsOnItsOwn(f)
    => pc = "done" /\ result = "nil"

\* C18: after the session's context is cancelled every blocking operation is
\* unblocked: the session cannot come to rest before every behaviour has
\* returned, every Pump has stopped and Run has returned.
C18_CancelUnblocksAll ==
    Quiescent /\ ctxDone =>
        /\ pc = "done"
        /\ \A f \in cohort : fpc[f] = "returned" /\ pumpState[f] # "running"

\* C19: Run returns only through its teardown; the teardown closes the inbox
\* of every function still registered, none of which is closed already; so
\* from then on the inbox of every function that has not returned is closed,
\* and a behaviour receiving from its inbox can go on.
C19_TeardownClosesInboxes ==
    /\ [][pc' = "done" /\ pc # "done" /\ cohort # {} => pc = "wait"]_vars
    /\ [](pc = "stop" => \A f \in funcs : ~inboxClosed[f])
    /\ [](pc \in {"wait", "done"} =>
            \A f \in cohort : inboxClosed[f] \/ fpc[f] = "returned")
    /\ [](\A f \in cohort :
            pc = "wait" /\ Receiving(f) => ENABLED ReceiveClosed(f, "nil"))

\* C19's case: a behaviour that ranges over its inbox, watching no context,
\* received a message and then returned because the teardown after another
\* behaviour's error closed its inbox; Run has returned.
C19_RangerReleased ==
    /\ pc = "done"
    /\ ~parentDone
    /\ \E f, g \in cohort :
          /\ impl[f] = Ranger
          /\ Len(inboxLog[f]) = 1
          /\ inboxClosed[f]
          /\ Err[g] # "nil"

\* C20: once a function's ready signal has been sent, no step adds a type to
\* its subscription set or removes one from it.
C20_SubscriptionsFixedAfterReady ==
    [][\A f \in Funcs : f \in readyAccepted => Subscriptions'[f] = Subscriptions[f]]_vars

\* f is a member of the subscriber set of some type.
InRegistry(f) == \E t \in DOMAIN subscribersByType : f \in subscribersByType[t].Members

\* C21: in no state is a function whose returned signal has been processed
\* still a member of a subscriber set, and in no state is the inbox of a member
\* of a subscriber set closed.
C21_EvictedBeforeInboxClosed ==
    \A f \in Funcs :
        /\ fpc[f] = "returned" => ~InRegistry(f)
        /\ inboxClosed[f] => ~InRegistry(f)

\* A step in which startFuncs receives a ready signal of f: f's call of Ready
\* completes and the loop counter goes down.
ReadySignalReceived(f) ==
    /\ pc = "barrier"
    /\ Op(f) = "Ready"
    /\ ip'[f] = ip[f] + 1
    /\ pending' = pending - 1

\* C22: a call of Ready by a function whose earlier call has completed can
\* return at once, changes nothing of the orchestrator and sends no ready
\* signal; f.Ready, once set, stays set, so the orchestrator receives at most
\* one ready signal of each function.
C22_ReadyIdempotent ==
    /\ [](\A f \in Funcs : Blocked(f, "Ready") /\ Ready[f] => ENABLED ReadyAgain(f))
    /\ [][\A f \in Funcs : Ready[f] => Ready'[f]]_vars
    /\ [][\A f \in Funcs : ReadySignalReceived(f) => ~Ready[f] /\ Ready'[f]]_vars
    /\ [][\A f \in Funcs :
            Ready[f] /\ Op(f) = "Ready" /\ ip'[f] # ip[f] =>
                UNCHANGED <<orchVars, readyAccepted, funcVars>>]_vars

\* C22's case: a behaviour's second call of Ready has returned while
\* startFuncs is still waiting for another function.
C22_SecondReadyReturned ==
    /\ pc = "barrier"
    /\ ~ctxDone
    /\ \E f \in readyAccepted : impl[f] = SubscriberI /\ ip[f] = 3

\* A step in which the behaviour of f starts to panic.
Panics(f) == fpc[f] = "running" /\ fpc'[f] = "unwinding"

\* C23: a behaviour at a Subscribe after its Ready, or at a facade operation
\* on a context that Run did not make, can only panic; the step in which it
\* panics changes no subscription set, no subscriber set and not s.funcs; and
\* no step of a behaviour whose Ready has completed changes its subscription
\* set.
C23_MisusePanicsWithoutEffect ==
    /\ [](\A f \in Funcs :
            fpc[f] = "running" /\ Misuse(f) =>
                ENABLED Panic(f) /\ ~ENABLED Subscribe(f))
    /\ [][\A f \in Funcs :
            fpc[f] = "running" /\ Misuse(f) /\ (ip'[f] # ip[f] \/ fpc'[f] # fpc[f]) =>
                Panics(f)]_vars
    /\ [][\A f \in Funcs :
            Panics(f) => UNCHANGED <<Subscriptions, subscribersByType, funcs, ip>>]_vars
    /\ [][\A f \in Funcs :
            Ready[f] /\ ip'[f] # ip[f] => Subscriptions'[f] = Subscriptions[f]]_vars

\* C23's case: a registered subscriber has called Subscribe after Ready and is
\* panicking, its subscription set and its membership as they were.
C23_LateSubscribePanicked ==
    \E f \in readyAccepted :
        /\ fpc[f] = "panicking"
        /\ impl[f] = LateSubscriber
        /\ Subscriptions[f] = {"I"}
        /\ "I" \in DOMAIN subscribersByType
        /\ f \in subscribersByType["I"].Members

\* C24: a nil message taken from the bus is fanned out like any other: every
\* registered subscriber to any that has not returned is being delivered the
\* message or has it in its inbox, and Run's goroutine never panics.
C24_NilPayloadDelivered ==
    /\ result # "panic"
    /\ env.Publisher # "nil" /\ env.MessageType = "nil" =>
          /\ pc = "deliver"
          /\ \A r \in readyAccepted \ {env.Publisher} :
                "any" \in Subscriptions[r] /\ ~HasReturned(r) =>
                    r \in delivering \/ Copies(r, env) = 1

\* C25: Ingest has called Ready before it reads the source; the values it has
\* sent are the first values of the source; a subscriber has them in source
\* order, each once; and Ingest returns the context's error when it returns
\* with the context done, and nil, with every value of the source sent, when
\* it returns with the context live.
C25_IngestRelaysSource ==
    /\ [](\A f \in Funcs : impl[f] = Ingester /\ ip[f] > 0 => Ready[f])
    /\ [](\A f \in Funcs : impl[f] = Ingester =>
            \A r \in Funcs : \A i, j \in Received(r) :
                /\ inboxLog[r][i].Publisher = f
                /\ inboxLog[r][j].Publisher = f
                /\ i < j
                => inboxLog[r][i].Message < inboxLog[r][j].Message)
    /\ [][\A f \in Funcs :
            impl[f] = Ingester /\ fpc[f] = "running" /\ fpc'[f] = "closing" =>
                IF ctxDone
                THEN Err'[f] = "Canceled"
                ELSE Err'[f] = "nil" /\ nSent[f] = MaxSends]_vars

\* C26: when startFuncs has completed without an error, every function of the
\* call has had its ready signal received or has had its returned signal
\* received and been removed from s.funcs.
C26_OneSignalPerFunction ==
    pc = "pumps" => \A f \in cohort : f \in readyAccepted \/ fpc[f] = "returned"

\* C27: Deliver goroutines run only inside deliverMessage; the orchestrator
\* takes an envelope from the bus, or processes a returned signal, only when
\* none is running; and every message that goes into an inbox is the message
\* of the one envelope being fanned out.
C27_FanOutSerialized ==
    /\ [](delivering # {} => pc = "deliver" /\ env # ZeroEnv)
    /\ [][env' # env /\ env' # ZeroEnv => delivering = {} /\ pc = "exchange"]_vars
    /\ [][funcs' # funcs => delivering = {}]_vars
    /\ [][\A r \in Funcs :
            inboxLog'[r] # inboxLog[r] =>
                r \in delivering /\ inboxLog'[r] = Append(inboxLog[r], env)]_vars

\* C27's case: while an envelope is being fanned out, another envelope waits
\* in a Pump for the bus and a returned signal waits for the orchestrator.
C27_OthersWaitDuringFanOut ==
    /\ pc = "deliver"
    /\ delivering # {}
    /\ ~ctxDone
    /\ \E p \in Funcs : pumpState[p] = "running" /\ Len(queue[p]) # 0
    /\ \E f \in Funcs : fpc[f] = "exiting"

\* C28: a recipient of the envelope being fanned out that is receiving can be
\* handed the message whatever the other recipients do; a Deliver goroutine
\* ends only by the recipient's accepting, by its having returned or by the
\* context being done, and can end in each of these cases; and once all have
\* ended the fan-out can finish.
C28_RecipientsIndependent ==
    /\ [](\A r \in Funcs :
            pc = "deliver" /\ r \in delivering =>
                /\ Receiving(r) => ENABLED DeliverSend(r)
                /\ returnedClosed[r] => ENABLED DeliverReturned(r)
                /\ ctxDone => ENABLED DeliverCtxDone(r))
    /\ [][\A r \in Funcs :
            r \in delivering /\ r \notin delivering' =>
                \/ inboxLog'[r] = Append(inboxLog[r], env)
                \/ returnedClosed[r]
                \/ ctxDone]_vars
    /\ [](pc = "deliver" /\ delivering = {} => ENABLED DeliverWait)

\* C28's case: of two recipients of one message, one never receives and its
\* delivery is still pending, the other has the message.
C28_OneStuckOneServed ==
    /\ pc = "deliver"
    /\ ~ctxDone
    /\ \E d \in delivering : impl[d] = Deaf /\ Blocked(d, "Wait")
    /\ \E r \in Funcs : impl[r] = SubscriberT /\ Copies(r, env) = 1

\* The number of envelopes in the queue of p's Pump that have not gone to the
\* bus, and the number that have.
Unforwarded(p) == Len(queue[p]) - index[p]
Forwarded(p) == nSent[p] - Unforwarded(p)

\* The envelope of the n-th message p's Pump accepted.
NthAccepted(p, n) == NewEnvelope(p, n, NthSendType(p, n))

\* C29: the queue of a Pump, from its read index on, holds the accepted
\* envelopes that have not gone to the bus, oldest first, and zero envelopes
\* before the index; the index of a non-empty queue is within its bounds and
\* that of an empty queue is 0; and each envelope that goes to the bus is the
\* next of the accepted ones after those that went before it, so that the
\* envelopes forwarded are the first ones accepted, in order, each once.
C29_PumpQueueIsFifo ==
    /\ [](\A p \in cohort :
            /\ Len(queue[p]) # 0 => index[p] >= 0 /\ index[p] < Len(queue[p])
            /\ Len(queue[p]) = 0 => index[p] = 0
            /\ Forwarded(p) >= 0
            /\ \A k \in 1..Len(queue[p]) :
                  queue[p][k] = IF k <= index[p]
                                THEN ZeroEnv
                                ELSE NthAccepted(p, nSent[p] - Len(queue[p]) + k))
    /\ [][\A p \in cohort :
            Unforwarded(p)' < Unforwarded(p) =>
                /\ Forwarded(p)' = Forwarded(p) + 1
                /\ env' = NthAccepted(p, Forwarded(p) + 1)
                /\ env' = queue[p][index[p] + 1]]_vars
    /\ [][\A p \in cohort : Forwarded(p)' >= Forwarded(p)]_vars

\* C29's case: a Pump has forwarded its first envelope while it holds a later
\* one, its read index past the start of the queue.
C29_IndexAdvanced ==
    \E p \in Funcs : index[p] > 0 /\ Len(queue[p]) > index[p] /\ ~ctxDone

\* C30: a Pump returns only with the context done or with its outbox closed
\* and no envelope left; it does not go on running with the outbox found
\* closed and no envelope left; and when the session can do nothing more, a
\* Pump still running after its function has returned holds an envelope the
\* orchestrator has not taken, with the context live.
C30_PumpTermination ==
    /\ [][\A f \in cohort :
            pumpState[f] = "running" /\ pumpState'[f] = "done" =>
                \/ ctxDone
                \/ outboxClosed[f] /\ outboxNil'[f] /\ Unforwarded(f)' = 0]_vars
    /\ [](\A f \in cohort :
            pumpState[f] = "running" /\ outboxNil[f] => Unforwarded(f) > 0)
    /\ [](Quiescent =>
            \A f \in cohort :
                pumpState[f] = "running" /\ HasReturned(f) =>
                    Unforwarded(f) > 0 /\ outboxNil[f] /\ ~ctxDone)

\* C30's case: a Pump whose function has returned has found the outbox closed
\* and runs on, with the context live, because it still holds an envelope.
C30_PumpOutlivesFunction ==
    \E f \in cohort :
        /\ pumpState[f] = "running"
        /\ outboxNil[f]
        /\ fpc[f] = "returned"
        /\ Unforwarded(f) > 0
        /\ ~ctxDone

\* The registered functions that subscribed to t themselves.
DirectSubscribers(t) == {f \in funcs \cap readyAccepted : t \in Subscribed(f)}

\* Eager resolution: the registered functions that subscribed to t or to an
\* interface that t implements.
EagerSubscribers(t) ==
    {f \in funcs \cap readyAccepted :
        \/ t \in Subscribed(f)
        \/ \E i \in Subscribed(f) : IsInterface(i) /\ Implements(t, i)}

\* C31: during every delivery the entry of the message's type is finalized
\* and its members are the registered functions that subscribed to the type
\* or to an interface it implements; a finalized entry stays finalized and
\* never gains a member, so the scan runs once for a type; and the entry of an
\* interface type is finalized from its creation and holds only the
\* registered functions that subscribed to the interface itself.
C31_LazyEqualsEager ==
    /\ [](pc = "deliver" =>
            /\ env.MessageType \in DOMAIN subscribersByType
            /\ subscribersByType[env.MessageType].IsFinalized
            /\ subscribersByType[env.MessageType].Members = EagerSubscribers(env.MessageType))
    /\ [](\A t \in DOMAIN subscribersByType :
            /\ IsInterface(t) =>
                  /\ subscribersByType[t].IsFinalized
                  /\ subscribersByType[t].Members = DirectSubscribers(t)
            /\ ~IsInterface(t) /\ subscribersByType[t].IsFinalized =>
                  subscribersByType[t].Members = EagerSubscribers(t))
    /\ [][\A t \in DOMAIN subscribersByType :
            subscribersByType[t].IsFinalized /\ ~IsInterface(t) =>
                /\ t \in DOMAIN subscribersByType'
                /\ subscribersByType'[t].IsFinalized
                /\ subscribersByType'[t].Members \subseteq subscribersByType[t].Members]_vars

\* C31's case: the second message of a type is being delivered from the
\* cached set, which holds a function that subscribed to the type and one
\* that subscribed to an interface the type implements.
C31_CachedSetUsed ==
    /\ pc = "deliver"
    /\ env.Message = 2
    /\ ~ctxDone
    /\ \E a, b \in subscribersByType[env.MessageType].Members :
          /\ Subscribed(a) = {"T"}
          /\ Subscribed(b) = {"I"}

\* C32: every member of every subscriber set is in s.funcs and had its ready
\* signal received, so a function removed by onReturn is in no set, also not
\* in one it was folded into; and the recipients of every delivery are
\* members of s.funcs.
C32_MembersAreRegistered ==
    /\ \A t \in DOMAIN subscribersByType :
          subscribersByType[t].Members \subseteq funcs \cap readyAccepted
    /\ \A f \in cohort \ funcs : ~InRegistry(f)
    /\ delivering \subseteq funcs

\* C32's case: a function that subscribed to an interface and was folded into
\* the set of a concrete type has been removed by onReturn, and a later
\* message of that type is being delivered.
C32_FoldedThenEvicted ==
    /\ pc = "deliver"
    /\ env.Message = 2
    /\ "T" \in DOMAIN subscribersByType
    /\ \E f \in cohort \ funcs :
          /\ fpc[f] = "returned"
          /\ Subscribed(f) = {"I"}
          /\ "T" \in Subscriptions[f]

\* A step of the orchestrator's loop that reads or writes the registry.
RegistryStep ==
    \/ pc = "barrier" /\ (pending' # pending \/ funcs' # funcs)
    \/ pc = "exchange" /\ (pc' \in {"deliver", "aborted"} \/ funcs' # funcs)
    \/ pc = "wait" /\ funcs' # funcs

\* The orchestrator has received a signal of f: its ready signal or its
\* returned signal.
SignalReceived(f) == f \in readyAccepted \/ f \notin funcs

\* C33: the registry changes only in steps of the orchestrator's loop; a
\* subscription set changes either in a step of its own behaviour, which is
\* then running with no signal of it received, or in a step of the
\* orchestrator, which has then received a signal of the function; and while
\* a behaviour can still call Subscribe, the orchestrator has received no
\* signal of it, holds it in no subscriber set and cannot receive a signal
\* of it.
C33_NoConcurrentAccess ==
    /\ [][subscribersByType' # subscribersByType => RegistryStep]_vars
    /\ [][\A f \in Funcs :
            Subscriptions'[f] # Subscriptions[f] =>
                \/ /\ ip'[f] = ip[f] + 1
                   /\ fpc[f] = "running"
                   /\ ~SignalReceived(f)
                   /\ subscribersByType' = subscribersByType
                \/ /\ ip' = ip
                   /\ RegistryStep
                   /\ SignalReceived(f)]_vars
    /\ [](\A f \in Funcs :
            ENABLED Subscribe(f) =>
                /\ ~SignalReceived(f)
                /\ ~InRegistry(f)
                /\ ~ENABLED BarrierReady(f)
                /\ ~ENABLED BarrierReturned(f)
                /\ ~ENABLED ExchangeReturned(f)
                /\ ~ENABLED StopReturned(f))

\* C33's case: a behaviour is about to call Subscribe while the orchestrator
\* is delivering a message, having written the registry for it.
C33_SubscribeDuringDelivery ==
    /\ pc = "deliver"
    /\ env.MessageType \in DOMAIN subscribersByType
    /\ \E f \in Funcs : ENABLED Subscribe(f)

\* C34: a behaviour is started once, by startFuncs, and a function that has
\* reported its return stays so; f.Returned is closed only after f.Outbox,
\* and the returned signal is received only after both are closed; s.funcs
\* only shrinks, a function leaves it in the step that receives its returned
\* signal, and it is empty when Run has returned.
C34_CalledAndEvictedOnce ==
    /\ [][\A f \in Funcs :
            fpc[f] # "running" /\ fpc'[f] = "running" => fpc[f] = "created" /\ pc = "run"]_vars
    /\ [][\A f \in Funcs :
            fpc[f] = "returned" => fpc'[f] = "returned" \/ pc' = "aborted"]_vars
    /\ [](\A f \in Funcs :
            /\ returnedClosed[f] => outboxClosed[f]
            /\ fpc[f] = "returned" => returnedClosed[f] /\ f \notin funcs)
    /\ [][\A f \in Funcs :
            returnedClosed'[f] /\ ~returnedClosed[f] =>
                outboxClosed[f] /\ fpc[f] \in {"closing", "unwinding"} /\ f \in funcs']_vars
    /\ [][funcs' \subseteq funcs /\ Cardinality(funcs \ funcs') <= 1]_vars
    /\ [][\A f \in funcs \ funcs' :
            /\ fpc[f] \in {"exiting", "panicking"}
            /\ returnedClosed[f]
            /\ fpc'[f] \in {"returned", "aborted"}]_vars
    /\ [](pc = "done" => funcs = {})

\* C34's case: a behaviour has returned and closed its outbox, its Pump has
\* seen the outbox closed, and f.Returned is not closed yet.
C34_BetweenTheCloses ==
    \E f \in funcs :
        /\ fpc[f] = "closing"
        /\ outboxClosed[f]
        /\ ~returnedClosed[f]
        /\ outboxNil[f]

\* C35: a goroutine is in Deliver for r only while r's inbox is open; the
\* inboxes are closed in one step of stopFuncs, each of them open until then,
\* with no goroutine in Deliver, and once an inbox is closed Run is past
\* exchangeMessages and no goroutine enters Deliver any more.
C35_NoSendOnClosedInbox ==
    /\ [](\A r \in delivering : ~inboxClosed[r])
    /\ []((\E f \in Funcs : inboxClosed[f]) =>
            delivering = {} /\ pc \in {"wait", "done", "aborted"})
    /\ [][\A f \in Funcs :
            inboxClosed'[f] # inboxClosed[f] =>
                /\ ~inboxClosed[f]
                /\ pc = "stop" /\ pc' = "wait"
                /\ delivering = {} /\ delivering' = {}]_vars
    /\ [][(pc \in {"cancel", "stop", "wait", "done"}) => (delivering' = {})]_vars

\* C35's case: stopFuncs has closed the inbox of a function that has been
\* delivered a message and is blocked receiving, while a Pump still holds
\* messages that were never delivered.
C35_ClosedWithMessagesQueued ==
    \E r \in funcs, p \in Funcs :
        /\ pc = "wait"
        /\ inboxClosed[r]
        /\ Len(inboxLog[r]) > 0
        /\ Receiving(r)
        /\ Len(queue[p]) > 0

\* C36: when Run has returned nil, every behaviour of the call has returned
\* nil; and when the orchestrator receives the returned signal of a behaviour
\* with a non-nil error while Run's result is not yet determined, that error
\* becomes the result at once and Run leaves its loop.
C36_NilOnlyIfAllNil ==
    /\ [](pc = "done" /\ result = "nil" =>
            \A f \in cohort : fpc[f] = "returned" /\ Err[f] = "nil")
    /\ [][\A f \in funcs \ funcs' :
            Err[f] # "nil" /\ result = "none" /\ pc' # "aborted" =>
                result' = Err[f] /\ pc' = "cancel"]_vars
    /\ [][result' = "nil" /\ result # "nil" => \A f \in cohort : Err[f] = "nil"]_vars

\* C36's case: Run has returned the error of a behaviour that returned it
\* during the barrier, in a call where another behaviour returned nil.
C36_ErrorAfterNilReturn ==
    \E f, g \in cohort :
        /\ pc = "done"
        /\ f # g
        /\ result = Err[f]
        /\ Err[f] # "nil"
        /\ Err[g] = "nil"
        /\ f \notin readyAccepted
        /\ pumpState[f] = "none"

\* The call is Run(ctx, A, B) with the two behaviours that publish k messages
\* to each other.
MutualCall(k) ==
    /\ cohort = {"A", "B"}
    /\ impl["A"] = MutualT(k)
    /\ impl["B"] = MutualU(k)

\* The k messages of type t that f publishes, in the order of its sends.
Published(f, k, t) == [n \in 1..k |-> NewEnvelope(f, n, t)]

\* C37: in a call of two behaviours that each subscribe to the type the
\* other sends, send k messages (k >= 1) and then receive k messages, made
\* with a context that is never cancelled, the session cannot come to rest
\* before Run has returned nil and each behaviour has received the k messages
\* of the other and returned nil; until then the context stays live, no
\* behaviour receives a message of its own or more than k messages, and no
\* panic ends the program.
C37_MutualPublishing ==
    \A k \in 1..MaxSends :
        MutualCall(k) =>
            /\ pc # "aborted"
            /\ ctxDone => pc \in {"stop", "wait", "done"} /\ result = "nil"
            /\ Len(inboxLog["A"]) <= k /\ Len(inboxLog["B"]) <= k
            /\ ~ENABLED SessionNext =>
                /\ pc = "done"
                /\ result = "nil"
                /\ inboxLog["A"] = Published("B", k, "U")
                /\ inboxLog["B"] = Published("A", k, "T")
                /\ \A f \in cohort : fpc[f] = "returned" /\ Err[f] = "nil"

\* C37's case: both behaviours have sent all their MaxSends messages and
\* neither has received any: the Pumps hold them while deliverMessage waits
\* for a recipient that is still sending or about to receive.
C37_AllSentNoneReceived ==
    /\ MutualCall(MaxSends)
    /\ MaxSends > 1
    /\ nSent["A"] = MaxSends /\ nSent["B"] = MaxSends
    /\ inboxLog["A"] = <<>> /\ inboxLog["B"] = <<>>
    /\ pc = "deliver"

====
